---- MODULE Spec2Model ----
(***************************************************************************)
(* Midway: a disk-backed LRU cache (cache/lru.go) in front of an object    *)
(* store, and the HTTP handler (handler/handler.go) that composes lookup,  *)
(* fetch and store.                                                        *)
(*                                                                         *)
(* Keys, file names and paths are sequences of one-character strings, so   *)
(* that sanitizeFilename is computed character by character as in the      *)
(* source.  File contents are sequences of bytes.  A file name stands for  *)
(* the path filesDir/<name>.                                               *)
(***************************************************************************)
EXTENDS Integers, Sequences, FiniteSets, TLC

(* ------------------------------ bounds -------------------------------- *)

\* maxSizeBytes of the cache under test (maxSizeGB * 2^30 in the source, scaled).
MaxSizeBytes == 2
\* Largest object the backend serves; larger than MaxSizeBytes so that
\* oversized objects occur.
MaxObjectSize == 3
\* Largest value of the wall clock.
MaxTime == 2
\* Number of requests and restarts in one run.
MaxOps == 3
\* Number of injected faults (disk I/O errors, deletions from outside) in one run.
MaxFaults == 1

(* ------------------------------- inputs ------------------------------- *)

KeyX == <<"b", "/", "x">>
KeyY == <<"b", "/", "y">>
KeyXTmp == <<"b", "/", "x", ".", "t", "m", "p">>
Keys == {KeyX, KeyY, KeyXTmp}

Procs == {"r1", "r2"}
\* The request goroutine of the runs that serve one request at a time.
Serial == {"r1"}
Methods == {"GET", "POST"}

None == "none"
NoFile == <<>>

(* ------------------------------ helpers ------------------------------- *)

SeqToSet(s) == {s[i] : i \in 1..Len(s)}

RECURSIVE FilterOut(_, _)
\* s without any occurrence of x
FilterOut(s, x) ==
    IF s = <<>> THEN <<>>
    ELSE IF Head(s) = x THEN FilterOut(Tail(s), x)
    ELSE <<Head(s)>> \o FilterOut(Tail(s), x)

\* container/list Remove(elem), for the element accessMap holds for key x:
\* the element pushed last for x, i.e. its first occurrence from the front.
ListRemove(s, x) ==
    IF x \notin SeqToSet(s) THEN s
    ELSE LET i == CHOOSE j \in 1..Len(s) : s[j] = x /\ \A h \in 1..(j - 1) : s[h] # x
         IN  SubSeq(s, 1, i - 1) \o SubSeq(s, i + 1, Len(s))

RECURSIVE SumSizes(_, _)
\* sum of the size fields of the entries of table e over the key set ks
SumSizes(e, ks) ==
    IF ks = {} THEN 0
    ELSE LET k == CHOOSE x \in ks : TRUE
         IN  e[k].size + SumSizes(e, ks \ {k})

EmptyFn == [y \in {} |-> 0]

\* f without x in its domain
Drop(f, x) == [y \in (DOMAIN f) \ {x} |-> f[y]]

\* f with x mapped to v
Bind(f, x, v) == [y \in (DOMAIN f) \cup {x} |-> IF y = x THEN v ELSE f[y]]

(* ------------------------- sanitizeFilename --------------------------- *)

Lower == {"a", "b", "c", "d", "e", "f", "g", "h", "i", "j", "k", "l", "m",
          "n", "o", "p", "q", "r", "s", "t", "u", "v", "w", "x", "y", "z"}
Upper == {"A", "B", "C", "D", "E", "F", "G", "H", "I", "J", "K", "L", "M",
          "N", "O", "P", "Q", "R", "S", "T", "U", "V", "W", "X", "Y", "Z"}
Digit == {"0", "1", "2", "3", "4", "5", "6", "7", "8", "9"}
SafeChar == Lower \cup Upper \cup Digit \cup {"-", "_", "."}

\* filepath.Ext: the suffix starting at the last dot of the last path element.
Ext(key) ==
    LET dots == {i \in 1..Len(key) :
                    key[i] = "." /\ \A j \in i..Len(key) : key[j] # "/"}
    IN  IF dots = {} THEN <<>>
        ELSE LET i == CHOOSE d \in dots : \A e \in dots : e <= d
             IN  SubSeq(key, i, Len(key))

RECURSIVE SafeBase(_)
SafeBase(base) ==
    IF base = <<>> THEN <<>>
    ELSE LET r == Head(base)
         IN  (IF r \in SafeChar THEN <<r>>
              ELSE IF r = "/" THEN <<"_">>
              ELSE <<>>) \o SafeBase(Tail(base))

sanitizeFilename(key) ==
    LET ext == Ext(key)
        base == SubSeq(key, 1, Len(key) - Len(ext))
    IN  SafeBase(base) \o ext

\* tmpPath := filePath + ".tmp"
TmpPath(filename) == filename \o <<".", "t", "m", "p">>

(* ------------------------------ backend ------------------------------- *)

KeyId(k) == CASE k = KeyX -> 1 [] k = KeyY -> 2 [] k = KeyXTmp -> 3 [] OTHER -> 0

\* The n-byte object of key k: every byte names the key and the length, so
\* that no object is a prefix of another one.
Object(k, n) == [j \in 1..n |-> 8 * KeyId(k) + n]

\* The versions of key k the backend may serve.
Backend(k) == {Object(k, n) : n \in 1..MaxObjectSize}
Streams == UNION {Backend(k) : k \in Keys}

\* parseS3Key: the key splits into bucket and object path at its first "/".
parseS3KeyOk(key) == \E i \in 1..Len(key) : key[i] = "/"

\* parseS3Key: the bucket is the part before the first "/".
Bucket(key) ==
    LET i == CHOOSE j \in 1..Len(key) : key[j] = "/" /\ \A h \in 1..(j - 1) : key[h] # "/"
    IN  SubSeq(key, 1, i - 1)

Buckets == {Bucket(k) : k \in Keys}

\* The LocationConstraint values GetBucketLocation answers; the empty one
\* stands for us-east-1.
Locations == {"", "eu-west-1"}

\* getClientForBucket, lines 50-53: an empty location means us-east-1.
RegionOf(loc) == IF loc = "" THEN "us-east-1" ELSE loc

\* A lookup that never finds the bucket.
RegionLoadMisses(m, b) == [ok |-> FALSE, region |-> None]

\* d.bucketRegions.Load(bucket)
RegionLoad(m, b) ==
    IF b \in DOMAIN m THEN [ok |-> TRUE, region |-> m[b]]
                      ELSE [ok |-> FALSE, region |-> None]

\* d.bucketRegions.Store(bucket, region)
RegionStore(m, b, r) == [y \in (DOMAIN m) \cup {b} |-> IF y = b THEN r ELSE m[y]]

(* ------------------------------- state -------------------------------- *)

VARIABLES
    entries,      \* c.entries: key -> [filename, size, accessTime]
    accessOrder,  \* c.accessOrder: keys, front (most recent) first
    accessMap,    \* c.accessMap: the keys that have a list element
    currentSize,  \* c.currentSize
    stats,        \* c.stats: [hits, misses, evictions]
    lock,         \* c.mu: [writer, readers]
    files,        \* filesDir: file name -> content
    metadata,     \* metadata.json: [state: "none" | "ok" | "corrupt", entries]
    now,          \* the wall clock
    pc,           \* per request: position in HandleFile / Get / Put / GetStats
    rq,           \* per request: its locals
    trace,        \* per request: the calls made and the response given
    last,         \* the cache operation completed last, nothing run since
    lastUse,      \* live keys by last successful Put or Get, most recent first
    sessUse,      \* the same within this construction, startup order behind
    bucketRegions,\* d.bucketRegions: bucket -> region, the recorded buckets only
    location,     \* the storage service: bucket -> LocationConstraint
    nOps,         \* requests and restarts so far
    nFaults       \* faults injected so far

vars == <<entries, accessOrder, accessMap, currentSize, stats, lock, files,
          metadata, now, pc, rq, trace, last, lastUse, sessUse, bucketRegions,
          location, nOps, nFaults>>

cacheVars == <<entries, accessOrder, accessMap, currentSize, stats>>
diskVars == <<files, metadata>>
ghostVars == <<last, lastUse, sessUse>>
netVars == <<bucketRegions, location>>

NoOp == [op |-> None]
NoRq == [kind |-> None, key |-> <<>>, data |-> <<>>, path |-> NoFile,
         keysBefore |-> {}, evBefore |-> 0, replaced |-> FALSE, oldSize |-> 0,
         region |-> None, known |-> FALSE, queried |-> FALSE,
         before |-> [entries |-> EmptyFn, accessOrder |-> <<>>, currentSize |-> 0,
                     files |-> EmptyFn]]

\* Put's locals: filename, tmpPath, and the stream's length
FileName(p) == sanitizeFilename(rq[p].key)
Tmp(p) == TmpPath(FileName(p))

\* A mutex that lets everybody in.
LockNeverHeld == TRUE

\* c.mu.Lock() can be taken: no writer and no reader holds c.mu.
LockFree == lock.writer = None /\ lock.readers = {}

(* --------------------------- cache internals -------------------------- *)

\* The index and the files directory as one value, for the helpers that
\* Get and Put share.  evictions is stats.Evictions; evicted (the keys
\* evicted, in order) and err are what evictIfNeeded reports.
CacheRec ==
    [entries |-> entries, accessOrder |-> accessOrder, accessMap |-> accessMap,
     currentSize |-> currentSize, files |-> files,
     evictions |-> stats.evictions, evicted |-> <<>>, err |-> FALSE]

\* removeEntry that forgets "c.currentSize -= entry.Size"
removeEntryKeepsSize(c, key) ==
    IF key \notin DOMAIN c.entries THEN c
    ELSE [c EXCEPT
            !.files = Drop(@, c.entries[key].filename),
            !.accessOrder = IF key \in c.accessMap THEN ListRemove(@, key) ELSE @,
            !.accessMap = @ \ {key},
            !.entries = Drop(@, key)]

\* removeEntry: delete the file (os.Remove, error ignored), drop the list
\* element, the accessMap and entries slots, subtract the size.
removeEntry(c, key) ==
    IF key \notin DOMAIN c.entries THEN c
    ELSE [c EXCEPT
            !.files = Drop(@, c.entries[key].filename),
            !.accessOrder = IF key \in c.accessMap THEN ListRemove(@, key) ELSE @,
            !.accessMap = @ \ {key},
            !.entries = Drop(@, key),
            !.currentSize = @ - c.entries[key].size]

\* A loop condition that forgets the incoming object.
EvictCondIgnoresIncoming(c, newSize) ==
    c.currentSize > MaxSizeBytes /\ Len(c.accessOrder) > 0

\* The loop condition of evictIfNeeded.
EvictCond(c, newSize) ==
    c.currentSize + newSize > MaxSizeBytes /\ Len(c.accessOrder) > 0

\* accessOrder.Front() instead of Back()
VictimFront(c) == c.accessOrder[1]

\* accessOrder.Back(): the least recently used key.
Victim(c) == c.accessOrder[Len(c.accessOrder)]

\* What evictIfNeeded returns: always nil.
EvictError(c, newSize) == FALSE

RECURSIVE evictIfNeededUncounted(_, _)
\* An eviction loop that forgets "c.stats.Evictions++".
evictIfNeededUncounted(c, newSize) ==
    IF EvictCond(c, newSize)
    THEN LET key == Victim(c)
             c1 == removeEntry(c, key)
         IN  evictIfNeededUncounted([c1 EXCEPT !.evicted = Append(@, key)], newSize)
    ELSE [c EXCEPT !.err = EvictError(c, newSize)]

RECURSIVE evictIfNeeded(_, _)
\* (The source loops forever when the back key has no entry; the index
\* invariant excludes that state.)
evictIfNeeded(c, newSize) ==
    IF EvictCond(c, newSize)
    THEN LET key == Victim(c)
             c1 == removeEntry(c, key)
         IN  evictIfNeeded([c1 EXCEPT !.evictions = @ + 1,
                                      !.evicted = Append(@, key)], newSize)
    ELSE [c EXCEPT !.err = EvictError(c, newSize)]

\* accessOrder.MoveToFront(elem)
MoveToFront(order, key) == <<key>> \o ListRemove(order, key)

\* accessOrder.PushFront(key)
PushFront(order, key) == <<key>> \o order

\* What GetStats returns.
GetStats ==
    [hits |-> stats.hits, misses |-> stats.misses, evictions |-> stats.evictions,
     totalBytes |-> currentSize, maxBytes |-> MaxSizeBytes,
     entryCount |-> Cardinality(DOMAIN entries)]

\* Would Get(key) be a hit now: the entry exists and os.Stat finds its file.
GetHit(key) == key \in DOMAIN entries /\ entries[key].filename \in DOMAIN files

(* ------------------------- recency bookkeeping ------------------------ *)

\* use order after key was stored or successfully read
Touch(use, key) == <<key>> \o FilterOut(use, key)

RECURSIVE Restrict(_, _)
\* use order restricted to the keys in ks
Restrict(use, ks) ==
    IF use = <<>> THEN <<>>
    ELSE IF Head(use) \in ks THEN <<Head(use)>> \o Restrict(Tail(use), ks)
    ELSE Restrict(Tail(use), ks)

(* ------------------------ ---- loadFromDisk -------------------------- *)

\* A load that keeps the persisted entries whose file is missing.
LoadEntriesKeepsMissing(md, fs) ==
    IF md.state # "ok" THEN EmptyFn ELSE md.entries

\* Lines 226-256: the persisted entries whose file exists, sizes refreshed
\* from the files.  A missing or malformed metadata.json loads nothing.
LoadEntries(md, fs) ==
    IF md.state # "ok" THEN EmptyFn
    ELSE [k \in {x \in DOMAIN md.entries : md.entries[x].filename \in DOMAIN fs} |->
            [md.entries[k] EXCEPT !.size = Len(fs[md.entries[k].filename])]]

\* The orders in which "for key, entry := range c.entries" may visit ks.
Orders(ks) ==
    {s \in [1..Cardinality(ks) -> ks] : \A i, j \in DOMAIN s : s[i] = s[j] => i = j}

Swap(s, i, j) == [s EXCEPT ![i] = s[j], ![j] = s[i]]

\* An inner loop that never swaps.
SortInnerNoSwap(e, s, i, j) == s

RECURSIVE SortInner(_, _, _, _)
\* Lines 270-274: the inner loop over j, for one i.
SortInner(e, s, i, j) ==
    IF j > Len(s) THEN s
    ELSE SortInner(e, IF e[s[i]].accessTime < e[s[j]].accessTime
                      THEN Swap(s, i, j) ELSE s, i, j + 1)

RECURSIVE SortOuter(_, _, _)
\* Lines 269-275: the outer loop over i.
SortOuter(e, s, i) ==
    IF i > Len(s) - 1 THEN s
    ELSE SortOuter(e, SortInner(e, s, i, i + 1), i + 1)

\* Lines 258-283: the recency list rebuilt from the visiting order s.
SortByAccessTime(e, s) == SortOuter(e, s, 1)

\* A constructor that returns the error of loadFromDisk.
NewCacheFailsOnLoadError(md) == md.state = "corrupt"

\* NewDiskLRUCache, lines 71-76: the error of loadFromDisk is printed as a
\* warning and the cache is returned; the constructor has failed only if
\* os.MkdirAll did, which no directory here makes happen.
NewCacheFails(md) == FALSE

(* -------------------------------- Init -------------------------------- *)

\* An empty cache directory: no metadata.json, no files.
FreshDir == [files |-> EmptyFn, metadata |-> [state |-> "none", entries |-> EmptyFn],
             now |-> 0, use |-> <<>>]

\* The cache directory an earlier process left: it stored one byte under
\* KeyX at time 0, then one byte under KeyY at time 1, and stopped.
UsedDir ==
    LET e == [k \in {KeyX, KeyY} |->
                [filename |-> sanitizeFilename(k), size |-> 1,
                 accessTime |-> IF k = KeyX THEN 0 ELSE 1]]
    IN  [files |-> [f \in {sanitizeFilename(KeyX), sanitizeFilename(KeyY)} |->
                      IF f = sanitizeFilename(KeyX) THEN Object(KeyX, 1)
                                                    ELSE Object(KeyY, 1)],
         metadata |-> [state |-> "ok", entries |-> e],
         now |-> 1, use |-> <<KeyY, KeyX>>]

\* NewDiskLRUCache and NewS3Downloader on the directory dir, in a run that
\* has used ops of its requests already.
InitDir(dir, ops) ==
        LET e == LoadEntries(dir.metadata, dir.files)
        IN  /\ files = dir.files
            /\ metadata = dir.metadata
            /\ now = dir.now
            /\ entries = e
            /\ currentSize = SumSizes(e, DOMAIN e)
            /\ accessMap = DOMAIN e
            /\ \E s \in Orders(DOMAIN e) : accessOrder = SortByAccessTime(e, s)
            /\ sessUse = accessOrder
            /\ lastUse = dir.use
            /\ stats = [hits |-> 0, misses |-> 0, evictions |-> 0]
            /\ lock = [writer |-> None, readers |-> {}]
            /\ pc = [p \in Procs |-> IF NewCacheFails(dir.metadata) THEN "down"
                                                                   ELSE "idle"]
            /\ rq = [p \in Procs |-> NoRq]
            /\ trace = [p \in Procs |-> <<>>]
            /\ last = NoOp
            /\ bucketRegions = EmptyFn
            /\ location = [b \in Buckets |-> ""]
            /\ nOps = ops
            /\ nFaults = 0

\* NewDiskLRUCache on one of these directories.
Init == \E dir \in {FreshDir, UsedDir} : InitDir(dir, 0)

\* The same, for a run of two requests.
InitConc == \E dir \in {FreshDir, UsedDir} : InitDir(dir, MaxOps - 2)

(* --------------------------- DiskLRUCache.Get ------------------------- *)

\* A stale branch that leaves the entry in the index.
GetStaleKeepsEntry(c, key) == c

\* Get, lines 94-99: the file of the entry is gone, the entry is removed.
GetStale(c, key) == removeEntry(c, key)

\* A handler that downloads whatever Get returned.
AfterGetAlwaysFetch(found) == "fetch"

\* HandleFile, lines 43-53: serve on a hit, download on a miss.
AfterGet(found) == IF found THEN "serve" ELSE "fetch"

\* Get(key) for request p, from c.mu.Lock() to the deferred Unlock; its
\* only I/O is os.Stat.
Get(p, key) ==
    LET exists == key \in DOMAIN entries
        stale == exists /\ entries[key].filename \notin DOMAIN files
        found == exists /\ ~stale
        c == IF stale THEN GetStale(CacheRec, key) ELSE CacheRec
    IN  /\ entries' = IF found
                      THEN [entries EXCEPT ![key].accessTime = now]
                      ELSE c.entries
        /\ accessOrder' = IF found /\ key \in accessMap
                          THEN MoveToFront(accessOrder, key)
                          ELSE c.accessOrder
        /\ accessMap' = c.accessMap
        /\ currentSize' = c.currentSize
        /\ files' = c.files
        /\ stats' = IF found THEN [stats EXCEPT !.hits = @ + 1]
                             ELSE [stats EXCEPT !.misses = @ + 1]
        /\ rq' = [rq EXCEPT ![p] =
                     [NoRq EXCEPT !.kind = "file", !.key = key,
                                  !.path = IF found THEN entries[key].filename
                                                    ELSE NoFile]]
        /\ pc' = [pc EXCEPT ![p] = AfterGet(found)]
        /\ trace' = [trace EXCEPT ![p] =
                        <<IF found THEN "Get:hit" ELSE "Get:miss">>]
        /\ last' = [op |-> "get", key |-> key, found |-> found, stale |-> stale,
                    countBefore |-> Cardinality(DOMAIN entries),
                    sizeBefore |-> currentSize,
                    entrySize |-> IF exists THEN entries[key].size ELSE 0,
                    hitsBefore |-> stats.hits, missesBefore |-> stats.misses]
        /\ lastUse' = IF found THEN Touch(lastUse, key) ELSE FilterOut(lastUse, key)
        /\ sessUse' = IF found THEN Touch(sessUse, key) ELSE FilterOut(sessUse, key)

(* --------------------------- request starts --------------------------- *)

\* HandleFile, lines 28-31: a request that is not a GET is answered 405.
HandleFileNotGet(p, m) ==
    /\ pc[p] = "idle"
    /\ m # "GET"
    /\ nOps < MaxOps
    /\ nOps' = nOps + 1
    /\ pc' = [pc EXCEPT ![p] = "done"]
    /\ trace' = [trace EXCEPT ![p] = <<"405">>]
    /\ last' = NoOp
    /\ UNCHANGED <<cacheVars, lock, diskVars, now, netVars, rq, lastUse, sessUse, nFaults>>

\* HandleFile, lines 33-48: GET /{key}, up to the return of h.cache.Get
\* (a request waiting for the lock has done nothing yet).
HandleFile(p, k) ==
    /\ pc[p] = "idle"
    /\ nOps < MaxOps
    /\ nOps' = nOps + 1
    /\ LockFree
    /\ Get(p, k)
    /\ UNCHANGED <<lock, metadata, now, netVars, nFaults>>

\* HandleStats -> GetStats: c.mu.RLock().
StatsBegin(p) ==
    /\ pc[p] = "idle"
    /\ nOps < MaxOps
    /\ lock.writer = None
    /\ nOps' = nOps + 1
    /\ lock' = [lock EXCEPT !.readers = @ \cup {p}]
    /\ pc' = [pc EXCEPT ![p] = "stats"]
    /\ rq' = [rq EXCEPT ![p] = [NoRq EXCEPT !.kind = "stats"]]
    /\ trace' = [trace EXCEPT ![p] = <<>>]
    /\ last' = NoOp
    /\ UNCHANGED <<cacheVars, diskVars, now, netVars, lastUse, sessUse, nFaults>>

\* GetStats: the snapshot, then c.mu.RUnlock().
StatsEnd(p) ==
    /\ pc[p] = "stats"
    /\ lock' = [lock EXCEPT !.readers = @ \ {p}]
    /\ pc' = [pc EXCEPT ![p] = "done"]
    /\ trace' = [trace EXCEPT ![p] = <<GetStats>>]
    /\ UNCHANGED <<cacheVars, diskVars, now, netVars, rq, ghostVars, nOps, nFaults>>

(* ------------------------- S3Downloader.Download ---------------------- *)

\* Download, lines 66-71, and getClientForBucket, lines 29-35: the key is
\* parsed and the bucket looked up in bucketRegions.
DlLoad(p) ==
    /\ pc[p] = "fetch"
    /\ parseS3KeyOk(rq[p].key)
    /\ LET b == Bucket(rq[p].key)
           r == RegionLoad(bucketRegions, b)
       IN  /\ rq' = [rq EXCEPT ![p].region = r.region,
                               ![p].known = b \in DOMAIN bucketRegions]
           /\ pc' = [pc EXCEPT ![p] = IF r.ok THEN "dl_get" ELSE "dl_locate"]
    /\ UNCHANGED <<cacheVars, lock, diskVars, now, netVars, trace, ghostVars, nOps>>
    /\ UNCHANGED nFaults

\* getClientForBucket, lines 42-53: GetBucketLocation answers.
DlLocate(p) ==
    /\ pc[p] = "dl_locate"
    /\ rq' = [rq EXCEPT ![p].region = RegionOf(location[Bucket(rq[p].key)]),
                        ![p].queried = TRUE]
    /\ pc' = [pc EXCEPT ![p] = "dl_store"]
    /\ UNCHANGED <<cacheVars, lock, diskVars, now, netVars, trace, ghostVars, nOps>>
    /\ UNCHANGED nFaults

\* getClientForBucket, lines 45-47: GetBucketLocation fails; Download
\* returns the error and HandleFile answers 404.
DlLocateFail(p) ==
    /\ nFaults < MaxFaults
    /\ nFaults' = nFaults + 1
    /\ pc[p] = "dl_locate"
    /\ rq' = [rq EXCEPT ![p].queried = TRUE]
    /\ pc' = [pc EXCEPT ![p] = "done"]
    /\ trace' = [trace EXCEPT ![p] = @ \o <<"Download:err", "404">>]
    /\ UNCHANGED <<cacheVars, lock, diskVars, now, netVars, ghostVars, nOps>>

\* getClientForBucket, line 55: the region is recorded.
DlStore(p) ==
    /\ pc[p] = "dl_store"
    /\ bucketRegions' = RegionStore(bucketRegions, Bucket(rq[p].key), rq[p].region)
    /\ pc' = [pc EXCEPT ![p] = "dl_get"]
    /\ UNCHANGED <<cacheVars, lock, diskVars, now, location, rq, trace, ghostVars, nOps>>
    /\ UNCHANGED nFaults

\* Download fails: GetObject returned an error (no such object, no
\* permission, a client pinned to another region than the bucket's);
\* HandleFile answers 404.
DownloadFail(p) ==
    /\ pc[p] = "dl_get"
    /\ pc' = [pc EXCEPT ![p] = "done"]
    /\ trace' = [trace EXCEPT ![p] = @ \o <<"Download:err", "404">>]
    /\ UNCHANGED <<cacheVars, lock, diskVars, now, netVars, rq, ghostVars, nOps>>
    /\ UNCHANGED nFaults

\* Download succeeds: the reader will deliver one version of the object.
DownloadOk(p) ==
    /\ pc[p] = "dl_get"
    /\ rq[p].region = RegionOf(location[Bucket(rq[p].key)])
    /\ \E d \in Backend(rq[p].key) :
          rq' = [rq EXCEPT ![p].data = d]
    /\ pc' = [pc EXCEPT ![p] = "put_begin"]
    /\ trace' = [trace EXCEPT ![p] = Append(@, "Download:ok")]
    /\ UNCHANGED <<cacheVars, lock, diskVars, now, netVars, ghostVars, nOps>>
    /\ UNCHANGED nFaults

(* --------------------------- DiskLRUCache.Put ------------------------- *)

\* A Put that does not remove the old entry of the key.
RemoveOldSkipped(c, key) == c

\* Put, lines 119-122: if the key already exists, remove the old entry.
RemoveOld(c, key) ==
    IF key \in DOMAIN c.entries THEN removeEntry(c, key) ELSE c

\* Put runs under c.mu.Lock() from entry to return.  Lines 116-122: take the
\* lock and remove the old entry of the key, if any.
PutLock(p, key, kind, data) ==
    /\ LockFree
    /\ LET c == RemoveOld(CacheRec, key)
       IN  /\ entries' = c.entries
           /\ accessOrder' = c.accessOrder
           /\ accessMap' = c.accessMap
           /\ currentSize' = c.currentSize
           /\ files' = c.files
           /\ rq' = [rq EXCEPT ![p] =
                        [rq[p] EXCEPT !.kind = kind, !.key = key, !.data = data,
                                     !.keysBefore = DOMAIN entries,
                                     !.before = [entries |-> entries,
                                                 accessOrder |-> accessOrder,
                                                 currentSize |-> currentSize,
                                                 files |-> files],
                                     !.evBefore = stats.evictions,
                                     !.replaced = key \in DOMAIN entries,
                                     !.oldSize = IF key \in DOMAIN entries
                                                 THEN entries[key].size ELSE 0]]
    /\ lock' = [lock EXCEPT !.writer = p]
    /\ pc' = [pc EXCEPT ![p] = "put_create"]
    /\ last' = NoOp
    /\ lastUse' = FilterOut(lastUse, key)
    /\ sessUse' = FilterOut(sessUse, key)

\* HandleFile, line 64: h.cache.Put(key, reader) gets the lock.
PutBegin(p) ==
    /\ pc[p] = "put_begin"
    /\ PutLock(p, rq[p].key, rq[p].kind, rq[p].data)
    /\ UNCHANGED <<stats, metadata, now, netVars, trace, nOps, nFaults>>

\* A direct call of Put(k, reader) with a reader that delivers d.
CallPut(p, k, d) ==
    /\ pc[p] = "idle"
    /\ nOps < MaxOps
    /\ nOps' = nOps + 1
    /\ PutLock(p, k, "put", d)
    /\ trace' = [trace EXCEPT ![p] = <<>>]
    /\ UNCHANGED <<stats, metadata, now, netVars, nFaults>>

\* Put returns an error: the deferred Unlock, then HandleFile answers 500.
PutReturnError(p, cause) ==
    /\ lock' = [lock EXCEPT !.writer = None]
    /\ pc' = [pc EXCEPT ![p] = "done"]
    /\ trace' = [trace EXCEPT ![p] =
                    @ \o (IF rq[p].kind = "file" THEN <<"Put:err", "500">>
                                                 ELSE <<"Put:err">>)]
    /\ last' = [op |-> "put", ok |-> FALSE, err |-> cause, key |-> rq[p].key,
                data |-> rq[p].data, keysBefore |-> rq[p].keysBefore,
                evBefore |-> rq[p].evBefore, replaced |-> rq[p].replaced,
                oldSize |-> rq[p].oldSize, before |-> rq[p].before]

\* A Put that gives the lock back before it copies the stream.
PutCreateUnlocks(p) ==
    /\ pc[p] = "put_create"
    /\ files' = Bind(files, Tmp(p), <<>>)
    /\ pc' = [pc EXCEPT ![p] = "put_copy"]
    /\ lock' = [lock EXCEPT !.writer = None]
    /\ UNCHANGED <<cacheVars, metadata, now, netVars, rq, trace, ghostVars, nOps>>
    /\ UNCHANGED nFaults

\* Line 130: os.Create(tmpPath) creates or truncates the temp file.
PutCreate(p) ==
    /\ pc[p] = "put_create"
    /\ files' = Bind(files, Tmp(p), <<>>)
    /\ pc' = [pc EXCEPT ![p] = "put_copy"]
    /\ UNCHANGED <<cacheVars, lock, metadata, now, netVars, rq, trace, ghostVars, nOps>>
    /\ UNCHANGED nFaults

\* Lines 131-133: os.Create fails.
PutCreateFail(p) ==
    /\ nFaults < MaxFaults
    /\ nFaults' = nFaults + 1
    /\ pc[p] = "put_create"
    /\ PutReturnError(p, "create")
    /\ UNCHANGED <<cacheVars, diskVars, now, netVars, rq, lastUse, sessUse, nOps>>

\* Line 135: io.Copy writes the next byte of the stream to the temp file.
PutCopy(p) ==
    /\ pc[p] = "put_copy"
    /\ LET written == files[Tmp(p)]
       IN  /\ Len(written) < Len(rq[p].data)
           /\ files' = [files EXCEPT ![Tmp(p)] =
                           Append(written, rq[p].data[Len(written) + 1])]
           /\ pc' = [pc EXCEPT ![p] =
                        IF Len(written) + 1 = Len(rq[p].data) THEN "put_evict"
                                                              ELSE "put_copy"]
    /\ UNCHANGED <<cacheVars, lock, metadata, now, netVars, rq, trace, ghostVars, nOps>>
    /\ UNCHANGED nFaults

\* Lines 137-140: io.Copy fails (read error, cancelled or timed-out fetch,
\* write error); the temp file is removed.
PutCopyFail(p) ==
    /\ nFaults < MaxFaults
    /\ nFaults' = nFaults + 1
    /\ pc[p] = "put_copy"
    /\ files' = Drop(files, Tmp(p))
    /\ PutReturnError(p, "copy")
    /\ UNCHANGED <<cacheVars, metadata, now, netVars, rq, lastUse, sessUse, nOps>>

\* Lines 142-146: evictIfNeeded(size).
PutEvict(p) ==
    /\ pc[p] = "put_evict"
    /\ LET size == Len(rq[p].data)
           c == evictIfNeeded(CacheRec, size)
       IN  /\ entries' = c.entries
           /\ accessOrder' = c.accessOrder
           /\ accessMap' = c.accessMap
           /\ currentSize' = c.currentSize
           /\ stats' = [stats EXCEPT !.evictions = c.evictions]
           /\ IF c.err
              THEN /\ files' = Drop(c.files, Tmp(p))
                   /\ PutReturnError(p, "evict")
              ELSE /\ files' = c.files
                   /\ pc' = [pc EXCEPT ![p] = "put_rename"]
                   /\ last' = [op |-> "evict", key |-> rq[p].key,
                               evicted |-> c.evicted, liveBefore |-> DOMAIN entries,
                               useBefore |-> lastUse, sessBefore |-> sessUse]
                   /\ UNCHANGED <<lock, trace>>
    /\ lastUse' = Restrict(lastUse, DOMAIN entries')
    /\ sessUse' = Restrict(sessUse, DOMAIN entries')
    /\ UNCHANGED <<metadata, now, netVars, rq, nOps, nFaults>>

\* Line 149: os.Rename(tmpPath, filePath) replaces the final path at once.
PutRename(p) ==
    /\ pc[p] = "put_rename"
    /\ Tmp(p) \in DOMAIN files
    /\ files' = Bind(Drop(files, Tmp(p)), FileName(p), files[Tmp(p)])
    /\ pc' = [pc EXCEPT ![p] = "put_commit"]
    /\ UNCHANGED <<cacheVars, lock, metadata, now, netVars, rq, trace, ghostVars, nOps>>
    /\ UNCHANGED nFaults

\* Lines 149-152: os.Rename fails on an I/O error.
PutRenameFail(p) ==
    /\ nFaults < MaxFaults
    /\ nFaults' = nFaults + 1
    /\ pc[p] = "put_rename"
    /\ Tmp(p) \in DOMAIN files
    /\ files' = Drop(files, Tmp(p))
    /\ PutReturnError(p, "rename")
    /\ UNCHANGED <<cacheVars, metadata, now, netVars, rq, lastUse, sessUse, nOps>>

\* Lines 149-152: os.Rename fails because the temp file is no longer there.
PutRenameMissing(p) ==
    /\ pc[p] = "put_rename"
    /\ Tmp(p) \notin DOMAIN files
    /\ PutReturnError(p, "rename_missing")
    /\ UNCHANGED <<cacheVars, diskVars, now, netVars, rq, lastUse, sessUse, nOps>>
    /\ UNCHANGED nFaults

\* os.WriteFile(metadataPath, data): the file holds the table; or the open
\* fails and the file is as before; or the write fails after the truncation.
SaveOutcomes == {"ok", "open_failed", "write_failed"}

\* saveMetadata: the full entry table e, marshalled.
saveMetadata(e, outcome) ==
    CASE outcome = "ok" -> [state |-> "ok", entries |-> e]
      [] outcome = "open_failed" -> metadata
      [] OTHER -> [state |-> "corrupt", entries |-> EmptyFn]

\* The entry Put creates (CreateTime is written and never read).
NewEntry(p) ==
    [filename |-> FileName(p), size |-> Len(rq[p].data), accessTime |-> now]

\* Lines 154-173: insert the entry at the front, add its size, persist the
\* metadata (the error of saveMetadata is dropped), unlock, return the path.
PutCommit(p) ==
    /\ pc[p] = "put_commit"
    /\ LET key == rq[p].key
           entry == NewEntry(p)
       IN  /\ entries' = Bind(entries, key, entry)
           /\ accessOrder' = PushFront(accessOrder, key)
           /\ accessMap' = accessMap \cup {key}
           /\ currentSize' = currentSize + entry.size
           /\ \E outcome \in SaveOutcomes :
                 /\ outcome # "ok" => nFaults < MaxFaults
                 /\ nFaults' = IF outcome = "ok" THEN nFaults ELSE nFaults + 1
                 /\ metadata' = saveMetadata(entries', outcome)
                 /\ last' = [op |-> "put", ok |-> TRUE, err |-> None, key |-> key,
                             data |-> rq[p].data, keysBefore |-> rq[p].keysBefore,
                             evBefore |-> rq[p].evBefore,
                             replaced |-> rq[p].replaced,
                             oldSize |-> rq[p].oldSize, saved |-> outcome]
           /\ rq' = [rq EXCEPT ![p].path = entry.filename]
           /\ lastUse' = Touch(lastUse, key)
           /\ sessUse' = Touch(sessUse, key)
    /\ lock' = [lock EXCEPT !.writer = None]
    /\ pc' = [pc EXCEPT ![p] = IF rq[p].kind = "file" THEN "serve" ELSE "done"]
    /\ trace' = [trace EXCEPT ![p] = Append(@, "Put:ok")]
    /\ UNCHANGED <<stats, files, now, netVars, nOps>>

(* ------------------------------- serve -------------------------------- *)

\* http.ServeFile(w, r, filePath), outside the cache lock.
Serve(p) ==
    /\ pc[p] = "serve"
    /\ pc' = [pc EXCEPT ![p] = "done"]
    /\ trace' = [trace EXCEPT ![p] = Append(@, "Serve")]
    /\ UNCHANGED <<cacheVars, lock, diskVars, now, netVars, rq, ghostVars, nOps>>
    /\ UNCHANGED nFaults

\* The request is over; its goroutine ends.
Done(p) ==
    /\ pc[p] = "done"
    /\ pc' = [pc EXCEPT ![p] = "idle"]
    /\ rq' = [rq EXCEPT ![p] = NoRq]
    /\ trace' = [trace EXCEPT ![p] = <<>>]
    /\ last' = NoOp
    /\ UNCHANGED <<cacheVars, lock, diskVars, now, netVars, lastUse, sessUse, nOps>>
    /\ UNCHANGED nFaults

(* ----------------------------- environment ---------------------------- *)

\* time.Now() advances.
Tick ==
    /\ now < MaxTime
    /\ now' = now + 1
    /\ UNCHANGED <<cacheVars, lock, diskVars, netVars, pc, rq, trace, ghostVars, nOps>>
    /\ UNCHANGED nFaults

\* The temp files of the Puts in progress.
TmpInUse == {Tmp(p) : p \in {q \in Procs : pc[q] \in {"put_copy", "put_evict", "put_rename"}}}

\* Somebody else deletes a file of the files directory.
ExternalDelete(f) ==
    /\ nFaults < MaxFaults
    /\ nFaults' = nFaults + 1
    /\ f \in DOMAIN files
    /\ f \notin TmpInUse
    /\ files' = Drop(files, f)
    /\ last' = NoOp
    /\ UNCHANGED <<cacheVars, lock, metadata, now, netVars, pc, rq, trace, lastUse, sessUse, nOps>>

\* The bucket is deleted and created again in another region.
Relocate(b) ==
    /\ nFaults < MaxFaults
    /\ nFaults' = nFaults + 1
    /\ \E loc \in Locations \ {location[b]} :
          location' = [location EXCEPT ![b] = loc]
    /\ UNCHANGED <<cacheVars, lock, diskVars, now, bucketRegions, pc, rq, trace,
                   ghostVars, nOps>>

(* ------------------------------ restart ------------------------------- *)

\* The process stops at any point and NewDiskLRUCache runs again on the
\* same cache directory.
Restart ==
    /\ nOps < MaxOps
    /\ nOps' = nOps + 1
    /\ LET e == LoadEntries(metadata, files)
       IN  /\ entries' = e
           /\ currentSize' = SumSizes(e, DOMAIN e)
           /\ accessMap' = DOMAIN e
           /\ \E s \in Orders(DOMAIN e) :
                 accessOrder' = SortByAccessTime(e, s)
    /\ stats' = [hits |-> 0, misses |-> 0, evictions |-> 0]
    /\ lock' = [writer |-> None, readers |-> {}]
    /\ pc' = [p \in Procs |-> IF NewCacheFails(metadata) THEN "down" ELSE "idle"]
    /\ rq' = [p \in Procs |-> NoRq]
    /\ trace' = [p \in Procs |-> <<>>]
    /\ last' = IF last.op = "put" /\ last.ok
               THEN [op |-> "restart", afterPut |-> TRUE, key |-> last.key,
                     data |-> last.data, saved |-> last.saved]
               ELSE [op |-> "restart", afterPut |-> FALSE]
    /\ lastUse' = Restrict(lastUse, DOMAIN entries')
    /\ sessUse' = accessOrder'
    /\ bucketRegions' = EmptyFn
    /\ UNCHANGED <<diskVars, now, location>>
    /\ UNCHANGED nFaults

(* -------------------------------- Next -------------------------------- *)

Request(p) ==
    \/ \E m \in Methods : HandleFileNotGet(p, m)
    \/ \E k \in Keys : HandleFile(p, k)
    \/ \E k \in Keys : \E d \in Backend(k) : CallPut(p, k, d)
    \/ StatsBegin(p)
    \/ StatsEnd(p)
    \/ DlLoad(p)
    \/ DlLocate(p)
    \/ DlLocateFail(p)
    \/ DlStore(p)
    \/ DownloadFail(p)
    \/ DownloadOk(p)
    \/ PutBegin(p)
    \/ PutCreate(p)
    \/ PutCreateFail(p)
    \/ PutCopy(p)
    \/ PutCopyFail(p)
    \/ PutEvict(p)
    \/ PutRename(p)
    \/ PutRenameFail(p)
    \/ PutRenameMissing(p)
    \/ PutCommit(p)
    \/ Serve(p)
    \/ Done(p)

\* Everything but deletions from outside.
NextClosed ==
    \/ \E p \in Serial : Request(p)
    \/ Tick
    \/ Restart

Next ==
    \/ NextClosed
    \/ \E f \in DOMAIN files : ExternalDelete(f)

Spec == Init /\ [][Next]_vars

\* The cache directory is touched by the cache alone.
SpecClosed == Init /\ [][NextClosed]_vars

\* Two request goroutines on one cache and one downloader, within one
\* process lifetime.
NextConc ==
    \/ \E p \in Procs : Request(p)
    \/ \E b \in Buckets : Relocate(b)

SpecConc == InitConc /\ [][NextConc]_vars

(* ------------------------------- claims ------------------------------- *)

\* number of positions of s that hold x
Occurrences(s, x) == Cardinality({i \in 1..Len(s) : s[i] = x})

\* The keys evicted, in order, are the least recently used live keys of the
\* use order, oldest first.
EvictsOldest(evicted, use, live) ==
    LET u == Restrict(use, live)
    IN  /\ Len(evicted) <= Len(u)
        /\ \A i \in 1..Len(evicted) : evicted[i] = u[Len(u) - i + 1]

PutDone == last.op = "put"
PutOk == last.op = "put" /\ last.ok

\* C1: after every successful Put, currentSize <= maxSize, or the object
\* that Put stored is by itself larger than maxSize.
C1_CapacityInvariant ==
    PutOk => (currentSize <= MaxSizeBytes \/ Len(last.data) > MaxSizeBytes)

\* A Put that had to evict to stay within the capacity.
C1_Witness ==
    /\ PutOk
    /\ stats.evictions > last.evBefore
    /\ Len(last.data) <= MaxSizeBytes
    /\ currentSize = MaxSizeBytes

C3_RoundTrip ==
    (last.op = "restart" /\ last.afterPut) =>
        /\ GetHit(last.key)
        /\ files[entries[last.key].filename] = last.data
        /\ entries[last.key].size = Len(last.data)

\* C4: a Put on a key that is already cached leaves one entry for the key,
\* with the size and content of this write; currentSize counts it once and
\* the replacement is no eviction.
C4_IdempotentOverwrite ==
    (PutOk /\ last.replaced) =>
        /\ last.key \in DOMAIN entries
        /\ Occurrences(accessOrder, last.key) = 1
        /\ entries[last.key].size = Len(last.data)
        /\ entries[last.key].filename \in DOMAIN files
        /\ files[entries[last.key].filename] = last.data
        /\ currentSize = SumSizes(entries, DOMAIN entries)
        /\ stats.evictions - last.evBefore =
              Cardinality((last.keysBefore \ {last.key}) \ DOMAIN entries)

\* A second write of another size, which also evicted the other entry.
C4_Witness ==
    /\ PutOk
    /\ last.replaced
    /\ last.oldSize = 1
    /\ Len(last.data) = 2
    /\ stats.evictions = last.evBefore + 1
    /\ DOMAIN entries = {last.key}

\* C5: a Get on an entry whose file is gone returns not-found, counts a miss
\* and no hit, drops the entry from the index and the recency order, and
\* subtracts its size; GetStats shows one entry less.
C5_StaleFileMiss ==
    (last.op = "get" /\ last.stale) =>
        /\ ~last.found
        /\ stats.misses = last.missesBefore + 1
        /\ stats.hits = last.hitsBefore
        /\ last.key \notin DOMAIN entries
        /\ last.key \notin SeqToSet(accessOrder)
        /\ last.key \notin accessMap
        /\ currentSize = last.sizeBefore - last.entrySize
        /\ GetStats.entryCount = last.countBefore - 1
        /\ GetStats.totalBytes = last.sizeBefore - last.entrySize

\* A stale entry of one byte was dropped, another entry stays.
C5_Witness ==
    /\ last.op = "get"
    /\ last.stale
    /\ last.entrySize = 1
    /\ GetStats.entryCount = 1

\* C6: the recency order holds exactly the keys of the entry table, each
\* once, and currentSize is the sum of the sizes of the entries.
C6_IndexInvariant ==
    /\ SeqToSet(accessOrder) = DOMAIN entries
    /\ \A k \in DOMAIN entries : Occurrences(accessOrder, k) = 1
    /\ currentSize = SumSizes(entries, DOMAIN entries)

\* A Put that removed the old entry of its key and then failed, while
\* another entry stays.
C6_Witness ==
    /\ PutDone
    /\ ~last.ok
    /\ last.replaced
    /\ Cardinality(DOMAIN entries) = 1
    /\ currentSize = 1

\* The sanitized names of the keys are pairwise distinct.
DistinctNames(ks) ==
    \A k1, k2 \in ks : sanitizeFilename(k1) = sanitizeFilename(k2) => k1 = k2

\* C7: with pairwise distinct sanitized names and no deletion from outside,
\* whenever the cache lock is not held every entry has its file.
C7_EntryFileInvariant ==
    (DistinctNames(Keys) /\ lock.writer = None) =>
        \A k \in DOMAIN entries : entries[k].filename \in DOMAIN files

\* C8: with pairwise distinct sanitized names, the file at the final path of
\* a cached key never holds partially written content: it holds the whole
\* content of one write.
C8_AtomicVisibility ==
    DistinctNames(Keys) =>
        \A k \in DOMAIN entries :
            entries[k].filename \in DOMAIN files =>
                files[entries[k].filename] \in Streams

\* C9: a Put of an object larger than maxSize fails only on a disk I/O
\* error; when it succeeds, it has evicted every other entry and the index
\* holds this entry alone.
C9_OversizedNeverRefused ==
    (PutDone /\ Len(last.data) > MaxSizeBytes) =>
        /\ last.ok \/ last.err \in {"create", "copy", "rename"}
        /\ last.ok =>
              /\ DOMAIN entries = {last.key}
              /\ currentSize = Len(last.data)
              /\ stats.evictions - last.evBefore =
                    Cardinality(last.keysBefore \ {last.key})

\* The calls and the response of a GET request for a file.
HitTrace == <<"Get:hit", "Serve">>
StoreTrace == <<"Get:miss", "Download:ok", "Put:ok", "Serve">>
NotFoundTrace == <<"Get:miss", "Download:err", "404">>
StoreFailTrace == <<"Get:miss", "Download:ok", "Put:err", "500">>
RequestTraces == {HitTrace, StoreTrace, NotFoundTrace, StoreFailTrace}

FetchStates == {"fetch", "dl_locate", "dl_store", "dl_get"}
PutStates == {"put_begin", "put_create", "put_copy", "put_evict", "put_rename",
              "put_commit"}

\* C10: a GET request for a file follows one of the four traces: Download
\* only after a Get miss, Put only after a successful Download, each at most
\* once, no Download after a hit and no Put after a failed Download.
C10_RequestStateMachine ==
    \A p \in Procs :
        rq[p].kind = "file" =>
            /\ pc[p] = "done" => trace[p] \in RequestTraces
            /\ pc[p] \in FetchStates => trace[p] = <<"Get:miss">>
            /\ pc[p] \in PutStates => trace[p] = <<"Get:miss", "Download:ok">>
            /\ pc[p] = "serve" =>
                  trace[p] \in {<<"Get:hit">>, <<"Get:miss", "Download:ok", "Put:ok">>}
            /\ pc[p] \in {"serve", "done"} \cup FetchStates \cup PutStates

\* A request whose store failed, answered 500.
C10_Witness ==
    \E p \in Procs : pc[p] = "done" /\ trace[p] = StoreFailTrace

\* The requests that have called GetBucketLocation for bucket b.
Queried(b) == {p \in Procs : rq[p].queried /\ Bucket(rq[p].key) = b}

\* C11 as stated: the Download calls for one bucket perform the location
\* query only once.
C11_OneLocationQueryPerBucket ==
    \A b \in Buckets : Cardinality(Queried(b)) <= 1

\* C11 amended: a Download that finds the region of its bucket recorded
\* reuses it and does not query the location API.
C11_RecordedRegionReused ==
    \A p \in Procs :
        (rq[p].kind = "file" /\ rq[p].known) =>
            /\ ~rq[p].queried
            /\ pc[p] \notin {"dl_locate", "dl_store"}
            /\ pc[p] = "dl_get" => rq[p].region = bucketRegions[Bucket(rq[p].key)]

\* One request resolved and recorded the region; the other found it
\* recorded and has downloaded its object.
C11_Witness ==
    \E p, q \in Procs :
        /\ p # q
        /\ rq[p].queried /\ pc[p] = "done" /\ trace[p] = StoreTrace
        /\ rq[q].known /\ pc[q] = "put_begin"

\* C19: once a region is recorded for a bucket, no Download changes or
\* removes it.
C19_FirstWriterWins ==
    [][\A b \in DOMAIN bucketRegions :
          b \in DOMAIN bucketRegions' /\ bucketRegions'[b] = bucketRegions[b]]_vars

\* The entry table the metadata file holds, if it can be read and parsed.
Persisted == IF metadata.state = "ok" THEN metadata.entries ELSE EmptyFn

\* The persisted entries whose backing file exists.
Survivors == {k \in DOMAIN Persisted : Persisted[k].filename \in DOMAIN files}

Restarted == last.op = "restart"

\* C12: construction yields exactly the persisted entries whose file exists,
\* each with the size of its file; currentSize is their sum and the hit, miss
\* and eviction counters are zero.
C12_StartupRecovery ==
    Restarted =>
        /\ DOMAIN entries = Survivors
        /\ SeqToSet(accessOrder) = Survivors
        /\ \A k \in Survivors :
              /\ entries[k].filename = Persisted[k].filename
              /\ entries[k].size = Len(files[Persisted[k].filename])
        /\ currentSize = SumSizes(entries, Survivors)
        /\ GetStats.totalBytes = SumSizes(entries, Survivors)
        /\ stats = [hits |-> 0, misses |-> 0, evictions |-> 0]

\* Two entries persisted, the file of one of them gone: one survivor.
C12_Witness ==
    /\ Restarted
    /\ Cardinality(DOMAIN Persisted) = 2
    /\ Cardinality(Survivors) = 1
    /\ currentSize = 1

\* C13: with the metadata file missing, unreadable or malformed, the
\* construction succeeds and the cache starts empty and ready to serve.
C13_RecoverableMetadataError ==
    (Restarted /\ metadata.state # "ok") =>
        /\ entries = EmptyFn
        /\ accessOrder = <<>>
        /\ accessMap = {}
        /\ currentSize = 0
        /\ LockFree
        /\ \A p \in Procs : pc[p] = "idle"

\* A restart on a malformed metadata file, next to a file left in filesDir.
C13_Witness ==
    /\ Restarted
    /\ metadata.state = "corrupt"
    /\ DOMAIN files # {}
    /\ entries = EmptyFn

\* C14: a Put that returns an error leaves the entries, their files, the
\* recency order and currentSize as they were before the call, and no temp
\* file behind.
C14_FailedPutIsLocal ==
    (PutDone /\ ~last.ok) =>
        /\ entries = last.before.entries
        /\ accessOrder = last.before.accessOrder
        /\ currentSize = last.before.currentSize
        /\ files = last.before.files
        /\ TmpPath(sanitizeFilename(last.key)) \in DOMAIN files =>
              TmpPath(sanitizeFilename(last.key)) \in DOMAIN last.before.files

\* C15: when the metadata write of a Put fails or is cut short, the metadata
\* file still holds what it held before.
C15_MetadataWriteIsCrashSafe ==
    [][(last'.op = "put" /\ last'.ok /\ last'.saved # "ok" /\ metadata.state = "ok")
          => metadata' = metadata]_vars

\* C16: whenever Put returns success, the metadata file lists exactly the
\* entries of the index: the same keys, file names and sizes.
C16_FullTablePersistence ==
    PutOk =>
        /\ metadata.state = "ok"
        /\ DOMAIN metadata.entries = DOMAIN entries
        /\ \A k \in DOMAIN entries :
              /\ metadata.entries[k].filename = entries[k].filename
              /\ metadata.entries[k].size = entries[k].size

\* The positions of Put between c.mu.Lock() and the deferred Unlock.
LockedPutStates == {"put_create", "put_copy", "put_evict", "put_rename", "put_commit"}

InPut == {p \in Procs : pc[p] \in LockedPutStates}
InStats == {p \in Procs : pc[p] = "stats"}

\* No critical section of Get or Put overlaps another one or a GetStats read.
MutualExclusion ==
    /\ Cardinality(InPut) <= 1
    /\ InPut # {} => InStats = {} /\ lock.writer \in InPut
    /\ lock.writer # None => lock.readers = {} /\ InPut = {lock.writer}
    /\ lock.readers = InStats

\* Request q takes a step.
Steps(q) == pc'[q] # pc[q] \/ rq'[q] # rq[q] \/ trace'[q] # trace[q]

\* While a request is inside Put, or inside GetStats, the steps of the other
\* requests leave the index and the cache directory alone.
CriticalSectionsAtomic ==
    \A p, q \in Procs :
        (p # q /\ (p \in InPut \/ p \in InStats) /\ Steps(q)) =>
            UNCHANGED <<cacheVars, files, metadata>>

\* C17: under any interleaving of Get, Put and GetStats, no critical section
\* overlaps another, so that the index is the result of the calls in the
\* order in which they got the lock.
C17_LockDiscipline == []MutualExclusion /\ [][CriticalSectionsAtomic]_vars

\* One request is copying inside Put while the other waits for the lock
\* with its own Put.
C17_Witness ==
    \E p, q \in Procs :
        /\ p # q
        /\ pc[p] = "put_copy" /\ lock.writer = p
        /\ pc[q] = "put_begin"

\* C18: two concurrent requests for one uncached key that both fetch and
\* store leave one entry for the key, counted once, whose file holds the
\* content written by the Put that ran last.
C18_NoCoalescing ==
    \A p, q \in Procs :
        (/\ p # q
         /\ pc[p] = "done" /\ pc[q] = "done"
         /\ trace[p] = StoreTrace /\ trace[q] = StoreTrace
         /\ rq[p].key = rq[q].key) =>
            LET k == rq[p].key
            IN  /\ k \in DOMAIN entries
                /\ Occurrences(accessOrder, k) = 1
                /\ currentSize = SumSizes(entries, DOMAIN entries)
                /\ entries[k].filename \in DOMAIN files
                /\ PutOk /\ last.key = k /\ last.replaced
                /\ files[entries[k].filename] = last.data
                /\ entries[k].size = Len(last.data)

\* Both requests missed, fetched different versions and stored them.
C18_Witness ==
    \E p, q \in Procs :
        /\ p # q
        /\ pc[p] = "done" /\ pc[q] = "done"
        /\ trace[p] = StoreTrace /\ trace[q] = StoreTrace
        /\ rq[p].key = rq[q].key
        /\ rq[p].data # rq[q].data
        /\ rq[q].replaced

\* C20 as stated: the byte copy and the rename of Put run outside the lock.
C20_CopyOutsideLock ==
    \A p \in Procs : pc[p] \in {"put_copy", "put_rename"} => lock.writer # p

\* While request p is inside Put, no Get and no GetStats completes.
NoReadDuringPut ==
    \A p \in Procs :
        (pc[p] \in LockedPutStates /\ pc'[p] \in LockedPutStates) =>
            /\ stats'.hits = stats.hits
            /\ stats'.misses = stats.misses
            /\ lock'.readers = {}

\* C20 amended: Put holds the exclusive lock from its entry to its return,
\* the byte copy and the rename included, and no Get or GetStats of another
\* request completes meanwhile.
C20_PutHoldsLockThroughout ==
    /\ [](\A p \in Procs : pc[p] \in LockedPutStates => lock.writer = p)
    /\ [][NoReadDuringPut]_vars

\* A Put has copied the first of two bytes while the other request has not
\* started.
C20_Witness ==
    \E p, q \in Procs :
        /\ p # q
        /\ pc[p] = "put_copy"
        /\ Len(rq[p].data) = 2 /\ Len(files[Tmp(p)]) = 1
        /\ pc[q] = "idle" /\ nOps < MaxOps

\* The recency order lists the entries by access time, most recent first.
SortedByAccessTime ==
    \A i, j \in 1..Len(accessOrder) :
        i < j => entries[accessOrder[i]].accessTime >= entries[accessOrder[j]].accessTime

\* C21: after construction the recency order lists the survivors by
\* lastAccessTime descending, so the entry evicted first, the one at the
\* back, has the oldest persisted lastAccessTime.
C21_StartupOrderSorted ==
    Restarted =>
        /\ SeqToSet(accessOrder) = DOMAIN entries
        /\ Len(accessOrder) = Cardinality(DOMAIN entries)
        /\ SortedByAccessTime
        /\ \A k \in DOMAIN entries :
              entries[k].accessTime = metadata.entries[k].accessTime
        /\ accessOrder # <<>> =>
              \A k \in DOMAIN entries :
                  entries[Victim(CacheRec)].accessTime <= entries[k].accessTime

\* A restart on two entries stored at different times, the older one last.
C21_Witness ==
    /\ Restarted
    /\ Len(accessOrder) = 2
    /\ entries[accessOrder[1]].accessTime > entries[accessOrder[2]].accessTime
    /\ stats.evictions = 0

\* C22: the recency order after construction is the same whatever the order
\* in which the entry table is visited, also for entries of equal
\* lastAccessTime.
C22_StartupOrderDeterministic ==
    Restarted =>
        \A s \in Orders(DOMAIN entries) : SortByAccessTime(entries, s) = accessOrder

\* The step is a restart of the process.
RestartStep == last'.op = "restart" /\ nOps' = nOps + 1

\* Request p's call of Get returns in this step.
GetStep(p) == pc[p] = "idle" /\ pc'[p] \in {"serve", "fetch"}

\* Request p's call of evictIfNeeded runs in this step.
EvictStep(p) == pc[p] = "put_evict" /\ pc'[p] # "put_evict"

\* Every Get counts one hit or one miss, nothing else does; the eviction
\* counter grows by the entries the eviction loop removes, and by nothing
\* when Put replaces a key or Get drops a stale entry.
CountersStep ==
    ~RestartStep =>
        /\ \A p \in Procs :
              GetStep(p) =>
                  /\ stats'.hits + stats'.misses = stats.hits + stats.misses + 1
                  /\ stats'.hits = stats.hits + (IF pc'[p] = "serve" THEN 1 ELSE 0)
                  /\ stats'.evictions = stats.evictions
        /\ \A p \in Procs :
              EvictStep(p) =>
                  stats'.evictions - stats.evictions =
                      Cardinality((DOMAIN entries) \ (DOMAIN entries'))
        /\ (\A p \in Procs : ~GetStep(p)) =>
              stats'.hits = stats.hits /\ stats'.misses = stats.misses
        /\ (\A p \in Procs : ~EvictStep(p)) => stats'.evictions = stats.evictions

\* C23: hits + misses counts the completed Gets, and the eviction counter
\* the entries removed by capacity eviction, not those removed by a
\* replacement or a stale Get.
C23_CounterAccounting == [][CountersStep]_vars

\* After one hit, a Put that replaced its key and evicted the other entry.
C23_Witness ==
    /\ PutOk
    /\ last.replaced
    /\ stats.evictions = 1
    /\ stats.hits = 1 /\ stats.misses = 0

\* Every file of filesDir is the backing file of exactly one entry, and
\* currentSize is the number of bytes stored.
AllFilesAccounted ==
    /\ \A f \in DOMAIN files :
          Cardinality({k \in DOMAIN entries : entries[k].filename = f}) = 1
    /\ currentSize = SumSizes(entries, DOMAIN entries)
    /\ \A k \in DOMAIN entries : entries[k].size = Len(files[entries[k].filename])

\* C24: after the process stopped inside Put and the cache was constructed
\* again, every file of filesDir belongs to exactly one entry.
C24_CrashInsidePut ==
    [][(RestartStep /\ InPut # {}) => AllFilesAccounted']_vars

\* C25: when a request serves the path it got from a Get hit or from its
\* Put, the path names a file that holds a complete version of its key.
C25_ServedPathValid ==
    \A p \in Procs :
        pc[p] = "serve" =>
            /\ rq[p].path \in DOMAIN files
            /\ files[rq[p].path] \in Backend(rq[p].key)

====
